---- MODULE Spec2Model ----
(***************************************************************************)
(* Model of src/bot/features/image_handler.py: the image ingestion,        *)
(* format sniffing, validation, temp-file staging and cleanup of the       *)
(* Telegram bot's ImageHandler.                                            *)
(*                                                                         *)
(* Three specifications share the variables:                               *)
(*   Spec       the pipeline: concurrent process_image requests and        *)
(*              cleanup_temp_file callers over one filesystem;             *)
(*   SpecSniff  the pure functions _detect_format and validate_image       *)
(*              applied to one buffer drawn from a wide set;               *)
(*   SpecPrompt the prompt templates applied to one category, caption and  *)
(*              staged path.                                               *)
(***************************************************************************)
EXTENDS Integers, Sequences, FiniteSets, TLC

(***************************************************************************)
(* Bounds of the model.                                                    *)
(***************************************************************************)
\* Leading bytes of a buffer that are kept explicitly (more than the 12 the
\* sniffer may read, so that bytes beyond its window exist).
HeadLen == 14
\* Calls of process_image and cleanup_temp_file that are made, each by a
\* task of its own, all of them concurrent.
NumCalls == 2
\* Distinct values uuid.uuid4() can draw.
NumTokens == 2

(***************************************************************************)
(* Program constants.                                                      *)
(***************************************************************************)
\* max_size = 10 * 1024 * 1024
MaxSize == 10485760
\* len(image_bytes) < 100
MinSize == 100
\* image_bytes[:12]
SniffLen == 12

Min(a, b) == IF a < b THEN a ELSE b

(***************************************************************************)
(* Byte buffers.  A buffer is its first Min(len, HeadLen) bytes, its       *)
(* length, and the identity of the bytes after the head (0 when there are  *)
(* none).  The code reads only the length and the leading bytes; the tail  *)
(* identity keeps two buffers with equal heads and lengths distinct.       *)
(***************************************************************************)
Take(s, n) == SubSeq(s, 1, Min(n, Len(s)))

Pad(s) == s \o [i \in 1..(HeadLen - Len(s)) |-> 0]

Buf(base, n, t) ==
    [head |-> Take(Pad(base), n), len |-> n, tail |-> IF n > HeadLen THEN t ELSE 0]

\* b"\x89PNG"
SigPNG == <<137, 80, 78, 71>>
\* b"\xff\xd8\xff"
SigJPEG == <<255, 216, 255>>
\* b"GIF87a"
SigGIF87a == <<71, 73, 70, 56, 55, 97>>
\* b"GIF89a"
SigGIF89a == <<71, 73, 70, 56, 57, 97>>
\* b"RIFF"
SigRIFF == <<82, 73, 70, 70>>
\* b"WEBP"
SigWEBP == <<87, 69, 66, 80>>

\* bytes.startswith(sig)
StartsWith(b, sig) == Len(b.head) >= Len(sig) /\ SubSeq(b.head, 1, Len(sig)) = sig

\* sub in s, for byte strings
Contains(s, sub) ==
    \E i \in 1..(Len(s) - Len(sub) + 1) : SubSeq(s, i, i + Len(sub) - 1) = sub

\* A plausible slip: the WEBP marker is searched in the whole buffer.
DetectFormat_wholeBuffer(b) ==
    IF StartsWith(b, SigPNG) THEN "png"
    ELSE IF StartsWith(b, SigJPEG) THEN "jpeg"
    ELSE IF StartsWith(b, SigGIF87a) \/ StartsWith(b, SigGIF89a) THEN "gif"
    ELSE IF StartsWith(b, SigRIFF) /\ Contains(b.head, SigWEBP) THEN "webp"
    ELSE "unknown"

\* ImageHandler._detect_format
DetectFormat(b) ==
    IF StartsWith(b, SigPNG) THEN "png"
    ELSE IF StartsWith(b, SigJPEG) THEN "jpeg"
    ELSE IF StartsWith(b, SigGIF87a) \/ StartsWith(b, SigGIF89a) THEN "gif"
    ELSE IF StartsWith(b, SigRIFF) /\ Contains(Take(b.head, SniffLen), SigWEBP) THEN "webp"
    ELSE "unknown"

\* A plausible slip: the format check runs before the size check.
ValidateImage_formatFirst(b) ==
    IF DetectFormat(b) = "unknown"
    THEN [ok |-> FALSE, reason |-> "Unsupported image format"]
    ELSE IF b.len > MaxSize
    THEN [ok |-> FALSE, reason |-> "Image too large (max 10MB)"]
    ELSE IF b.len < MinSize
    THEN [ok |-> FALSE, reason |-> "Invalid image data"]
    ELSE [ok |-> TRUE, reason |-> "None"]

\* A plausible slip: the minimum-length check runs before the format check.
ValidateImage_minFirst(b) ==
    IF b.len > MaxSize
    THEN [ok |-> FALSE, reason |-> "Image too large (max 10MB)"]
    ELSE IF b.len < MinSize
    THEN [ok |-> FALSE, reason |-> "Invalid image data"]
    ELSE IF DetectFormat(b) = "unknown"
    THEN [ok |-> FALSE, reason |-> "Unsupported image format"]
    ELSE [ok |-> TRUE, reason |-> "None"]

\* ImageHandler.validate_image: (bool, Optional[str]) as [ok, reason]
ValidateImage(b) ==
    IF b.len > MaxSize
    THEN [ok |-> FALSE, reason |-> "Image too large (max 10MB)"]
    ELSE IF DetectFormat(b) = "unknown"
    THEN [ok |-> FALSE, reason |-> "Unsupported image format"]
    ELSE IF b.len < MinSize
    THEN [ok |-> FALSE, reason |-> "Invalid image data"]
    ELSE [ok |-> TRUE, reason |-> "None"]

(***************************************************************************)
(* Input buffers of SpecSniff: every length of interest of every base.     *)
(***************************************************************************)
SniffBases ==
    { SigPNG,                                         \* PNG
      <<137, 80, 78, 0>>,                             \* PNG signature, last byte off
      SigJPEG,                                        \* JPEG
      <<255, 216, 0>>,                                \* JPEG signature, last byte off
      SigGIF87a,
      SigGIF89a,
      <<71, 73, 70, 56, 56, 97>>,                     \* "GIF88a"
      SigRIFF \o <<0, 0, 0, 0>> \o SigWEBP,           \* RIFF....WEBP (bytes 9..12)
      SigRIFF \o SigWEBP,                             \* RIFFWEBP (bytes 5..8)
      SigRIFF \o <<0, 0, 0, 0, 0>> \o SigWEBP,        \* WEBP at bytes 10..13
      SigRIFF \o <<0, 0, 0, 0, 0, 0>> \o SigWEBP,     \* WEBP at bytes 11..14
      SigRIFF \o <<0, 0, 0, 0, 0>>,                   \* RIFF, no WEBP
      SigRIFF \o <<0, 0, 0, 0>> \o <<87, 65, 86, 69>>,\* RIFF....WAVE
      <<0, 0, 0, 0, 0, 0, 0, 0>> \o SigWEBP,          \* WEBP without RIFF
      <<>> }                                          \* zeros

SniffLens ==
    (0..HeadLen) \cup {50, 99, 100, 101, 200, 5004,
                       MaxSize - 1, MaxSize, MaxSize + 1, 11534336}

SniffBuffers == { Buf(base, n, 1) : base \in SniffBases, n \in SniffLens }

EmptyBuf == Buf(<<>>, 0, 0)

Pending == [ok |-> FALSE, reason |-> "pending"]

(***************************************************************************)
(* Paths.  A path string is [abs, segs]: whether it starts with "/", and   *)
(* its segments.  A segment is [stem, tok, ext]; the staged file name      *)
(* f"telegram_image_{uuid4().hex}.{extension}" is the segment              *)
(* ["telegram_image_", token, extension], any other name n is [n, 0, ""].  *)
(***************************************************************************)
Seg(name) == [stem |-> name, tok |-> 0, ext |-> ""]

Dot == Seg(".")

DotDot == Seg("..")

Front(s) == SubSeq(s, 1, Len(s) - 1)

NoPath == [abs |-> FALSE, segs |-> <<>>]

\* TELEGRAM_IMAGE_TEMP_DIR = Path(__file__).parent.parent.parent.parent / "temp" / "images"
RootPath == [abs |-> TRUE, segs |-> <<Seg("app"), Seg("temp"), Seg("images")>>]

\* the process's working directory: the repository directory
Cwd == <<Seg("app")>>

RECURSIVE DropDots(_)
DropDots(segs) ==
    IF segs = <<>> THEN <<>>
    ELSE IF Head(segs) = Dot THEN DropDots(Tail(segs))
    ELSE <<Head(segs)>> \o DropDots(Tail(segs))

\* pathlib.Path(s): "." segments are dropped, ".." segments are kept
ParsePath(s) == [abs |-> s.abs, segs |-> DropDots(s.segs)]

\* str(path): the segments of the (already normalised) Path joined by "/"
StrPath(p) == [abs |-> p.abs, segs |-> p.segs]

\* Path.parent: lexical, the path without its last segment
ParentOf(p) == IF p.segs = <<>> THEN p ELSE [abs |-> p.abs, segs |-> Front(p.segs)]

\* path / name
JoinPath(p, seg) == [abs |-> p.abs, segs |-> Append(p.segs, seg)]

(***************************************************************************)
(* The filesystem: d is the set of directories, f maps each regular file   *)
(* to its bytes; both are keyed by absolute, resolved segment sequences.   *)
(***************************************************************************)
\* the kernel's path walk: every segment is looked up in a directory, and
\* ".." goes to that directory's parent
RECURSIVE Walk(_, _, _)
Walk(cur, segs, d) ==
    IF segs = <<>> THEN [ok |-> TRUE, at |-> cur]
    ELSE IF cur \notin d THEN [ok |-> FALSE, at |-> cur]
    ELSE Walk(IF Head(segs) = DotDot
              THEN (IF cur = <<>> THEN cur ELSE Front(cur))
              ELSE Append(cur, Head(segs)),
              Tail(segs), d)

Resolve(p, d) == Walk(IF p.abs THEN <<>> ELSE Cwd, p.segs, d)

\* Path.exists()
Exists(p, d, f) ==
    LET w == Resolve(p, d) IN w.ok /\ (w.at \in d \/ w.at \in DOMAIN f)

\* Path.is_file(): used by the properties only
IsFile(p, d, f) ==
    LET w == Resolve(p, d) IN w.ok /\ w.at \in DOMAIN f

Prefixes(segs) == { SubSeq(segs, 1, n) : n \in 0..Len(segs) }

Remove(f, k) == [x \in DOMAIN f \ {k} |-> f[x]]

(***************************************************************************)
(* ImageHandler._save_to_temp_file                                         *)
(***************************************************************************)
Tokens == 1..NumTokens

\* extension = format if format != "unknown" else "png"
SaveExtension(format) == IF format # "unknown" THEN format ELSE "png"

\* A plausible slip: the file name carries a directory of its own.
TempFilePath_subdir(format, t) ==
    JoinPath(JoinPath(RootPath, Seg("sub")),
             [stem |-> "telegram_image_", tok |-> t, ext |-> SaveExtension(format)])

\* file_path = TELEGRAM_IMAGE_TEMP_DIR / f"telegram_image_{uuid4().hex}.{extension}"
TempFilePath(format, t) ==
    JoinPath(RootPath,
             [stem |-> "telegram_image_", tok |-> t, ext |-> SaveExtension(format)])

\* what the operating system does to the calls of _save_to_temp_file
IoOutcomes == {"ok", "mkdir_error", "open_error", "write_error"}

\* A plausible slip: the I/O error is logged and swallowed.
SaveToTempFile_swallow(b, format, t, io, d, f) ==
    LET path == TempFilePath(format, t)
        made == d \cup Prefixes(RootPath.segs)
    IN  CASE io = "mkdir_error" ->
               [raised |-> FALSE, path |-> path, dirs |-> d, files |-> f]
          [] io = "open_error" ->
               [raised |-> FALSE, path |-> path, dirs |-> made, files |-> f]
          [] io = "write_error" ->
               [raised |-> FALSE, path |-> path, dirs |-> made,
                files |-> (path.segs :> EmptyBuf) @@ f]
          [] OTHER ->
               [raised |-> FALSE, path |-> path, dirs |-> made,
                files |-> (path.segs :> b) @@ f]

\* A plausible slip: the buffer is written without its last byte.
SaveToTempFile_short(b, format, t, io, d, f) ==
    LET path == TempFilePath(format, t)
        made == d \cup Prefixes(RootPath.segs)
        cut == IF b.len = 0 THEN b
               ELSE [head |-> Take(b.head, b.len - 1), len |-> b.len - 1, tail |-> b.tail]
    IN  CASE io = "mkdir_error" ->
               [raised |-> TRUE, path |-> NoPath, dirs |-> d, files |-> f]
          [] io = "open_error" ->
               [raised |-> TRUE, path |-> NoPath, dirs |-> made, files |-> f]
          [] io = "write_error" ->
               [raised |-> TRUE, path |-> NoPath, dirs |-> made,
                files |-> (path.segs :> EmptyBuf) @@ f]
          [] OTHER ->
               [raised |-> FALSE, path |-> path, dirs |-> made,
                files |-> (path.segs :> cut) @@ f]

\* _save_to_temp_file(image_bytes, format) with uuid4() drawing t and the
\* operating system answering io: mkdir(parents=True, exist_ok=True), then
\* write_bytes, which opens the file for writing (creating or truncating it)
\* and writes the buffer.  An OSError of either call propagates (raised).
SaveToTempFile(b, format, t, io, d, f) ==
    LET path == TempFilePath(format, t)
        made == d \cup Prefixes(RootPath.segs)
    IN  CASE io = "mkdir_error" ->
               [raised |-> TRUE, path |-> NoPath, dirs |-> d, files |-> f]
          [] io = "open_error" ->
               [raised |-> TRUE, path |-> NoPath, dirs |-> made, files |-> f]
          [] io = "write_error" ->
               [raised |-> TRUE, path |-> NoPath, dirs |-> made,
                files |-> (path.segs :> EmptyBuf) @@ f]
          [] OTHER ->
               [raised |-> FALSE, path |-> path, dirs |-> made,
                files |-> (path.segs :> b) @@ f]

(***************************************************************************)
(* Prompts.  A prompt is the sequence of the pieces its f-string and       *)
(* concatenation put together: literal text, the formatted path, and the   *)
(* caption.                                                                *)
(***************************************************************************)
Text(s) == [kind |-> "text", text |-> s, path |-> NoPath]

PathPiece(p) == [kind |-> "path", text |-> "", path |-> StrPath(p)]

\* Optional[str]
NoCaption == [some |-> FALSE, text |-> ""]

SomeCaption(s) == [some |-> TRUE, text |-> s]

\* `if caption:` is true of a caption that is neither None nor empty
Truthy(caption) == caption.some /\ caption.text # ""

\* ImageHandler._create_screenshot_prompt
CreateScreenshotPrompt(caption, file_path) ==
    << Text("I'm sharing a screenshot with you. The image is saved at: "),
       PathPiece(file_path),
       Text("\n\nIMPORTANT: Use the Read tool to view the image file before analyzing.\n\nPlease analyze the screenshot and help me with:\n1. Identifying what application or website this is from\n2. Understanding the UI elements and their purpose\n3. Any issues or improvements you notice\n4. Answering any specific questions I have\n\n") >>
    \o (IF Truthy(caption)
        THEN <<Text("Specific request: "), Text(caption.text)>> ELSE <<>>)

\* ImageHandler._create_diagram_prompt
CreateDiagramPrompt(caption, file_path) ==
    << Text("I'm sharing a diagram with you. The image is saved at: "),
       PathPiece(file_path),
       Text("\n\nIMPORTANT: Use the Read tool to view the image file before analyzing.\n\nPlease help me:\n1. Understand the components and their relationships\n2. Identify the type of diagram (flowchart, architecture, etc.)\n3. Explain any technical concepts shown\n4. Suggest improvements or clarifications\n\n") >>
    \o (IF Truthy(caption)
        THEN <<Text("Specific request: "), Text(caption.text)>> ELSE <<>>)

\* ImageHandler._create_ui_prompt
CreateUiPrompt(caption, file_path) ==
    << Text("I'm sharing a UI mockup with you. The image is saved at: "),
       PathPiece(file_path),
       Text("\n\nIMPORTANT: Use the Read tool to view the image file before analyzing.\n\nPlease analyze:\n1. The layout and visual hierarchy\n2. User experience considerations\n3. Accessibility aspects\n4. Implementation suggestions\n5. Any potential improvements\n\n") >>
    \o (IF Truthy(caption)
        THEN <<Text("Specific request: "), Text(caption.text)>> ELSE <<>>)

\* A plausible slip: the template forgets the caption.
CreateGenericPrompt_noCaption(caption, file_path) ==
    << Text("I'm sharing an image with you. The image is saved at: "),
       PathPiece(file_path),
       Text("\n\nIMPORTANT: Use the Read tool to view the image file before analyzing.\n\nPlease analyze it and provide relevant insights.\n\n") >>

\* ImageHandler._create_generic_prompt
CreateGenericPrompt(caption, file_path) ==
    << Text("I'm sharing an image with you. The image is saved at: "),
       PathPiece(file_path),
       Text("\n\nIMPORTANT: Use the Read tool to view the image file before analyzing.\n\nPlease analyze it and provide relevant insights.\n\n") >>
    \o (IF Truthy(caption)
        THEN <<Text("Context: "), Text(caption.text)>> ELSE <<>>)

\* ImageHandler._detect_image_type: a stub
DetectImageType(b) == "screenshot"

\* the if/elif chain of process_image that picks the template
CreatePrompt(image_type, caption, file_path) ==
    IF image_type = "screenshot" THEN CreateScreenshotPrompt(caption, file_path)
    ELSE IF image_type = "diagram" THEN CreateDiagramPrompt(caption, file_path)
    ELSE IF image_type = "ui_mockup" THEN CreateUiPrompt(caption, file_path)
    ELSE CreateGenericPrompt(caption, file_path)

\* no ProcessedImage (the request has not returned one)
NoResult ==
    [prompt |-> <<>>, image_type |-> "none", size |-> 0, file_path |-> NoPath,
     metadata |-> [format |-> "none", has_caption |-> FALSE]]

\* the ProcessedImage process_image builds (base64_data, a second copy of
\* the bytes that nothing reads, is left out)
ProcessedImage(b, caption, file_path) ==
    [prompt |-> CreatePrompt(DetectImageType(b), caption, file_path),
     image_type |-> DetectImageType(b),
     size |-> b.len,
     file_path |-> StrPath(file_path),
     metadata |-> [format |-> DetectFormat(b), has_caption |-> caption.some]]

(***************************************************************************)
(* ImageHandler.cleanup_temp_file                                          *)
(***************************************************************************)
\* A plausible slip: the confinement test is left out.
CleanupCheck_noConfinement(file_path, d, f) == Exists(ParsePath(file_path), d, f)

\* path.exists() and path.parent == TELEGRAM_IMAGE_TEMP_DIR
CleanupCheck(file_path, d, f) ==
    /\ Exists(ParsePath(file_path), d, f)
    /\ ParentOf(ParsePath(file_path)) = RootPath

\* A plausible slip: no try/except around the unlink.
CleanupUnlink_noExcept(file_path, refused, d, f) ==
    LET w == Resolve(ParsePath(file_path), d)
    IN  IF refused \/ ~w.ok \/ w.at \notin DOMAIN f
        THEN [res |-> "raised", log |-> "none", files |-> f]
        ELSE [res |-> "true", log |-> "debug", files |-> Remove(f, w.at)]

\* path.unlink() inside the try: it raises when the operating system refuses
\* (refused), when the file is gone (FileNotFoundError) and when the path is a
\* directory (IsADirectoryError); `except Exception` logs a warning and the
\* function returns False.  Otherwise the file is removed and True returned.
CleanupUnlink(file_path, refused, d, f) ==
    LET w == Resolve(ParsePath(file_path), d)
    IN  IF refused \/ ~w.ok \/ w.at \notin DOMAIN f
        THEN [res |-> "false", log |-> "warning", files |-> f]
        ELSE [res |-> "true", log |-> "debug", files |-> Remove(f, w.at)]

(***************************************************************************)
(* Inputs of the pipeline.                                                 *)
(***************************************************************************)
\* PNG signature and 5,000 bytes of payload; 50 bytes with no signature;
\* a 200-byte JPEG
PipeBuffers == { Buf(SigPNG, 5004, 1), Buf(<<>>, 50, 1), Buf(SigJPEG, 200, 1) }

Captions == { NoCaption, SomeCaption("what is this") }

Formats == {"png", "jpeg", "gif", "webp", "unknown"}

\* every path _save_to_temp_file can return
StagedPaths == { StrPath(TempFilePath(fmt, t)) : fmt \in Formats, t \in Tokens }

SecretFile == <<Seg("app"), Seg("secret")>>

InnerFile == RootPath.segs \o <<Seg("sub"), Seg("inner")>>

\* the bytes of the files that are no staged images
SecretBuf == Buf(<<1, 2, 3>>, 3, 0)

\* the image an earlier run staged and did not clean up, and its path
LeftoverBuf == Buf(SigPNG, 5004, 2)

LeftoverPath == StrPath(TempFilePath(DetectFormat(LeftoverBuf), 1))

\* path strings a caller may hand to cleanup_temp_file besides staged paths
CraftedPaths ==
    { \* <root>/ghost: no such file
      JoinPath(RootPath, Seg("ghost")),
      \* <root>/sub/inner: a file in a sub-directory of the root
      [abs |-> TRUE, segs |-> InnerFile],
      \* /app/secret: a file outside the root
      [abs |-> TRUE, segs |-> SecretFile],
      \* <root>/../../secret: the same file through ../ segments
      [abs |-> TRUE, segs |-> RootPath.segs \o <<DotDot, DotDot, Seg("secret")>>],
      \* <root>/..: the root's parent directory
      JoinPath(RootPath, DotDot),
      \* <root>/./<staged name>: a staged file through a "." segment
      [abs |-> TRUE,
       segs |-> RootPath.segs \o <<Dot, [stem |-> "telegram_image_", tok |-> 1, ext |-> "png"]>>],
      \* temp/images/<staged name>: a staged file, relative to the working directory
      [abs |-> FALSE,
       segs |-> <<Seg("temp"), Seg("images"),
                  [stem |-> "telegram_image_", tok |-> 1, ext |-> "png"]>>] }

\* the staged paths the returned ProcessedImages carry
ReturnedPaths(q) == { q[r].result.file_path : r \in { x \in DOMAIN q : q[x].pc = "returned" } }

Calls == 1..NumCalls

IdleRequest ==
    [pc |-> "idle", caption |-> NoCaption, buf |-> EmptyBuf, io |-> "none",
     result |-> NoResult]

IdleCleaner == [pc |-> "idle", path |-> NoPath, res |-> "none", log |-> "none"]

VARIABLES
    dirs,     \* the directories of the filesystem
    files,    \* the regular files of the filesystem and their bytes
    req,      \* per call slot used for process_image: pc, caption, the downloaded buffer,
              \* what the operating system answered, the ProcessedImage returned
    cln,      \* per call slot used for cleanup_temp_file: pc, the argument, the value
              \* returned, what was logged
    sbuf,     \* SpecSniff: the buffer the pure functions are applied to
    sfmt,     \* SpecSniff: result of _detect_format(sbuf), "pending" before
    sval,     \* SpecSniff: result of validate_image(sbuf), Pending before
    pcat,     \* SpecPrompt: the image type the template is chosen by
    pcap,     \* SpecPrompt: the caption
    ppath,    \* SpecPrompt: the path of the staged file
    pprompt,  \* SpecPrompt: the prompt composed, <<>> before
    pdone     \* SpecPrompt: whether the prompt has been composed

sniffVars == <<sbuf, sfmt, sval>>

pipeVars == <<dirs, files, req, cln>>

promptVars == <<pcat, pcap, ppath, pprompt, pdone>>

vars == <<dirs, files, req, cln, sbuf, sfmt, sval, pcat, pcap, ppath, pprompt, pdone>>

\* no prompt is being composed
PromptIdle ==
    /\ pcat = "screenshot"
    /\ pcap = NoCaption
    /\ ppath = NoPath
    /\ pprompt = <<>>
    /\ pdone = FALSE

\* a fresh deployment: the managed directory does not exist yet
FreshDirs == { <<>>, <<Seg("app")>> }

FreshFiles == (SecretFile :> SecretBuf)

\* a deployment that has run before: the managed directory exists and holds
\* a sub-directory and an image an earlier process_image staged
UsedDirs == Prefixes(RootPath.segs) \cup { RootPath.segs \o <<Seg("sub")>> }

UsedFiles ==
    (SecretFile :> SecretBuf) @@ (InnerFile :> SecretBuf)
        @@ (LeftoverPath.segs :> LeftoverBuf)

Init ==
    /\ \/ dirs = FreshDirs /\ files = FreshFiles
       \/ dirs = UsedDirs /\ files = UsedFiles
    /\ req = [r \in Calls |-> IdleRequest]
    /\ cln = [c \in Calls |-> IdleCleaner]
    /\ sbuf = EmptyBuf
    /\ sfmt = "pending"
    /\ sval = Pending
    /\ PromptIdle

\* call slot k has not been used yet; the slots are used in order (they are
\* interchangeable, so this loses no behaviour)
Unused(k) == req[k].pc = "idle" /\ cln[k].pc = "idle"

\* process_image is called and suspends in `await photo.get_file()` /
\* `await file.download_as_bytearray()`
ProcessImageCall(r, caption) ==
    /\ Unused(r)
    /\ \A x \in Calls : x < r => ~Unused(x)
    /\ req' = [req EXCEPT ![r] = [IdleRequest EXCEPT !.pc = "downloading",
                                                     !.caption = caption]]
    /\ UNCHANGED <<dirs, files, cln, sniffVars, promptVars>>

\* the download delivers b and process_image runs to its end without another
\* suspension: detect type and format, save to the temp file, build the
\* prompt, return the ProcessedImage; an OSError of the save propagates
ProcessImageRun(r, b, t, io) ==
    /\ req[r].pc = "downloading"
    /\ io = "mkdir_error" => RootPath.segs \notin dirs
    /\ LET saved == SaveToTempFile(b, DetectFormat(b), t, io, dirs, files)
       IN  /\ dirs' = saved.dirs
           /\ files' = saved.files
           /\ req' = [req EXCEPT ![r] =
                        IF saved.raised
                        THEN [IdleRequest EXCEPT !.pc = "raised", !.buf = b, !.io = "error"]
                        ELSE [@ EXCEPT !.pc = "returned", !.buf = b, !.io = io,
                                       !.result = ProcessedImage(b, req[r].caption,
                                                                 saved.path)]]
    /\ UNCHANGED <<cln, sniffVars, promptVars>>

\* cleanup_temp_file(file_path) up to its test: False at once when the test
\* fails, else on to the unlink
CleanupCall(c, file_path) ==
    /\ Unused(c)
    /\ \A x \in Calls : x < c => ~Unused(x)
    /\ cln' = [cln EXCEPT ![c] =
                 IF CleanupCheck(file_path, dirs, files)
                 THEN [pc |-> "checked", path |-> file_path, res |-> "none", log |-> "none"]
                 ELSE [pc |-> "done", path |-> file_path, res |-> "false", log |-> "none"]]
    /\ UNCHANGED <<dirs, files, req, sniffVars, promptVars>>

\* the unlink of cleanup_temp_file and its return
CleanupRun(c, refused) ==
    /\ cln[c].pc = "checked"
    /\ LET u == CleanupUnlink(cln[c].path, refused, dirs, files)
       IN  /\ files' = u.files
           /\ cln' = [cln EXCEPT ![c] = [@ EXCEPT !.pc = "done", !.res = u.res,
                                                  !.log = u.log]]
    /\ UNCHANGED <<dirs, req, sniffVars, promptVars>>

Next ==
    \/ \E r \in Calls, caption \in Captions : ProcessImageCall(r, caption)
    \/ \E r \in Calls, b \in PipeBuffers, t \in Tokens, io \in IoOutcomes :
          ProcessImageRun(r, b, t, io)
    \/ \E c \in Calls, p \in ReturnedPaths(req) \cup {LeftoverPath} \cup CraftedPaths :
          CleanupCall(c, p)
    \/ \E c \in Calls, refused \in BOOLEAN : CleanupRun(c, refused)

Spec == Init /\ [][Next]_vars

InitSniff ==
    /\ sbuf \in SniffBuffers
    /\ sfmt = "pending"
    /\ sval = Pending
    /\ dirs = FreshDirs
    /\ files = FreshFiles
    /\ req = [r \in Calls |-> IdleRequest]
    /\ cln = [c \in Calls |-> IdleCleaner]
    /\ PromptIdle

\* a caller applies _detect_format to the buffer
CallDetectFormat ==
    /\ sfmt = "pending"
    /\ sfmt' = DetectFormat(sbuf)
    /\ UNCHANGED <<sbuf, sval, pipeVars, promptVars>>

\* a caller awaits validate_image on the buffer
CallValidateImage ==
    /\ sval = Pending
    /\ sval' = ValidateImage(sbuf)
    /\ UNCHANGED <<sbuf, sfmt, pipeVars, promptVars>>

NextSniff == CallDetectFormat \/ CallValidateImage

SpecSniff == InitSniff /\ [][NextSniff]_vars

(***************************************************************************)
(* SpecPrompt: the prompt of one image type, caption and staged path.      *)
(***************************************************************************)
\* the four image types, and one the if/elif chain does not name
ImageTypes == {"screenshot", "diagram", "ui_mockup", "generic", "photo"}

\* None, the empty caption, and two captions with text
PromptCaptions ==
    { NoCaption, SomeCaption(""), SomeCaption("what is this"), SomeCaption("image") }

InitPrompt ==
    /\ pcat \in ImageTypes
    /\ pcap \in PromptCaptions
    /\ ppath \in { TempFilePath(fmt, t) : fmt \in Formats, t \in Tokens }
    /\ pprompt = <<>>
    /\ pdone = FALSE
    /\ sbuf = EmptyBuf
    /\ sfmt = "pending"
    /\ sval = Pending
    /\ dirs = FreshDirs
    /\ files = FreshFiles
    /\ req = [r \in Calls |-> IdleRequest]
    /\ cln = [c \in Calls |-> IdleCleaner]

\* the if/elif chain of process_image composes the prompt
ComposePrompt ==
    /\ ~pdone
    /\ pprompt' = CreatePrompt(pcat, pcap, ppath)
    /\ pdone' = TRUE
    /\ UNCHANGED <<pcat, pcap, ppath, pipeVars, sniffVars>>

NextPrompt == ComposePrompt

SpecPrompt == InitPrompt /\ [][NextPrompt]_vars

(***************************************************************************)
(* Vocabulary of the properties.                                           *)
(***************************************************************************)
\* the files directly inside the managed directory
RootFiles(f) == { k \in DOMAIN f : k # <<>> /\ Front(k) = RootPath.segs }

\* the files outside the managed directory and in its sub-directories
OtherFiles(f) == DOMAIN f \ RootFiles(f)

\* call r of process_image ends in this step
Finishes(r) == req[r].pc = "downloading" /\ req'[r].pc \in {"returned", "raised"}

\* call c of cleanup_temp_file returns in this step
Returns(c) == cln[c].pc # "done" /\ cln'[c].pc = "done"

\* the buffer starts with one of the four signatures, as section 4.1 of the
\* design lists them
HasSignature(b, sig) ==
    /\ b.len >= Len(sig)
    /\ \A i \in 1..Len(sig) : b.head[i] = sig[i]

WebpInFirst12(b) ==
    \E i \in 1..(SniffLen - 3) :
        /\ i + 3 <= b.len
        /\ \A j \in 0..3 : b.head[i + j] = SigWEBP[j + 1]

Recognised(b) ==
    \/ HasSignature(b, SigPNG)
    \/ HasSignature(b, SigJPEG)
    \/ HasSignature(b, SigGIF87a)
    \/ HasSignature(b, SigGIF89a)
    \/ (HasSignature(b, SigRIFF) /\ WebpInFirst12(b))

(***************************************************************************)
(* C1: whenever process_image ends for a buffer that fails validation, it  *)
(* has not returned a ProcessedImage and the files of the managed          *)
(* directory are the ones there were before.  (Violated: process_image     *)
(* never calls validate_image and stages every buffer.)                    *)
(***************************************************************************)
C1_InvalidBufferNeverStaged ==
    [][\A r \in Calls :
          (Finishes(r) /\ ~ValidateImage(req'[r].buf).ok)
              => (req'[r].pc # "returned" /\ RootFiles(files') = RootFiles(files))]_vars

(***************************************************************************)
(* C2: cleanup_temp_file returns True only for a path that exists, whose   *)
(* parent is the managed directory and that names a file directly inside   *)
(* it, and then removes exactly that file; whenever it returns False no    *)
(* file is removed; the files outside the managed directory and in its     *)
(* sub-directories are never touched.                                      *)
(***************************************************************************)
C2_CleanupConfined ==
    [][\A c \in Calls :
          Returns(c) =>
              LET p == ParsePath(cln'[c].path)
                  k == Resolve(p, dirs).at
              IN  /\ cln'[c].res = "true" =>
                        /\ Exists(p, dirs, files)
                        /\ ParentOf(p) = RootPath
                        /\ k \in RootFiles(files)
                        /\ files' = Remove(files, k)
                  /\ cln'[c].res # "true" => files' = files
                  /\ \A o \in OtherFiles(files) :
                        o \in DOMAIN files' /\ files'[o] = files[o]]_vars

\* a call with the path <root>/../../secret has returned False while the
\* file it resolves to exists, and another call has deleted a staged file
C2_Witness ==
    \E c, e \in Calls :
        /\ cln[c].pc = "done"
        /\ cln[c].path.segs = RootPath.segs \o <<DotDot, DotDot, Seg("secret")>>
        /\ IsFile(ParsePath(cln[c].path), dirs, files)
        /\ cln[c].res = "false"
        /\ cln[e].pc = "done"
        /\ cln[e].res = "true"

(***************************************************************************)
(* C3: no step changes the bytes of a file that exists, and no two         *)
(* ProcessedImages carry the same staged path.  (Violated: the file is     *)
(* written without a test for existence, so a repeated token overwrites.)  *)
(***************************************************************************)
C3_NeverOverwrites ==
    [][/\ \A k \in DOMAIN files : k \in DOMAIN files' => files'[k] = files[k]
       /\ \A r, q \in Calls :
             (r # q /\ req'[r].pc = "returned" /\ req'[q].pc = "returned")
                 => req'[r].result.file_path # req'[q].result.file_path]_vars

(***************************************************************************)
(* C4: validate_image answers by the first of these that applies: longer   *)
(* than 10,485,760 bytes, too large; no recognised signature, unsupported  *)
(* format; shorter than 100 bytes, invalid image data; else accepted with  *)
(* no reason.                                                              *)
(***************************************************************************)
C4_ValidateOrder ==
    sval # Pending =>
        /\ sbuf.len > MaxSize
              => sval = [ok |-> FALSE, reason |-> "Image too large (max 10MB)"]
        /\ (sbuf.len <= MaxSize /\ ~Recognised(sbuf))
              => sval = [ok |-> FALSE, reason |-> "Unsupported image format"]
        /\ (sbuf.len <= MaxSize /\ Recognised(sbuf) /\ sbuf.len < MinSize)
              => sval = [ok |-> FALSE, reason |-> "Invalid image data"]
        /\ (sbuf.len <= MaxSize /\ Recognised(sbuf) /\ sbuf.len >= MinSize)
              => sval = [ok |-> TRUE, reason |-> "None"]

\* a buffer that is too large and has no signature was reported too large
C4_Witness ==
    /\ sbuf.len > MaxSize
    /\ ~Recognised(sbuf)
    /\ sval = [ok |-> FALSE, reason |-> "Image too large (max 10MB)"]

(***************************************************************************)
(* C5, as claimed: every 50-byte buffer is rejected as invalid image data. *)
(***************************************************************************)
C5_FiftyBytesInvalidData ==
    (sbuf.len = 50 /\ sval # Pending)
        => sval = [ok |-> FALSE, reason |-> "Invalid image data"]

(***************************************************************************)
(* C5, amended: every 50-byte buffer is rejected; as unsupported format    *)
(* when it starts with no recognised signature, as invalid image data      *)
(* when it does.                                                           *)
(***************************************************************************)
C5_FiftyBytesRejected ==
    (sbuf.len = 50 /\ sval # Pending)
        => sval = [ok |-> FALSE,
                   reason |-> IF Recognised(sbuf) THEN "Invalid image data"
                              ELSE "Unsupported image format"]

\* 50 bytes without a signature were rejected as unsupported format
C5_Witness ==
    /\ sbuf.len = 50
    /\ ~Recognised(sbuf)
    /\ sval = [ok |-> FALSE, reason |-> "Unsupported image format"]

(***************************************************************************)
(* C6, as claimed: cleanup_temp_file of the path of a ProcessedImage,      *)
(* called while the file exists, returns True and the file is gone.        *)
(***************************************************************************)
C6_CleanupOfStagedReturnsTrue ==
    [][\A c \in Calls :
          (/\ Returns(c)
           /\ cln'[c].path \in ReturnedPaths(req)
           /\ IsFile(ParsePath(cln'[c].path), dirs, files))
              => (/\ cln'[c].res = "true"
                  /\ ~Exists(ParsePath(cln'[c].path), dirs', files'))]_vars

(***************************************************************************)
(* C6, amended: cleanup_temp_file of the path of a ProcessedImage, called  *)
(* while the file exists, passes the confinement test; it then returns     *)
(* True with the file gone, unless the unlink raises, and then it logs a   *)
(* warning, returns False and removes nothing.                             *)
(***************************************************************************)
C6_StagedPathPassesCleanup ==
    [][\A c \in Calls :
          LET p == ParsePath(cln'[c].path)
          IN  (cln'[c].path \in ReturnedPaths(req) /\ IsFile(p, dirs, files)) =>
                 /\ (cln[c].pc = "idle" /\ cln'[c].pc # "idle")
                        => cln'[c].pc = "checked"
                 /\ (cln[c].pc = "checked" /\ cln'[c].pc = "done")
                        => \/ /\ cln'[c].res = "true"
                              /\ ~Exists(p, dirs', files')
                           \/ /\ cln'[c].res = "false"
                              /\ cln'[c].log = "warning"
                              /\ files' = files]_vars

\* the path of a ProcessedImage was cleaned up: True, and the file is gone
C6_Witness ==
    \E c, r \in Calls :
        /\ req[r].pc = "returned"
        /\ cln[c].pc = "done"
        /\ cln[c].path = req[r].result.file_path
        /\ cln[c].res = "true"
        /\ ~Exists(ParsePath(cln[c].path), dirs, files)

(***************************************************************************)
(* C7: a call of process_image whose staging met an I/O error has raised   *)
(* and returned no ProcessedImage; every ProcessedImage returned comes     *)
(* from a staging without error and carries the path of a staged file.     *)
(***************************************************************************)
C7_FailedStagingReturnsNothing ==
    \A r \in Calls :
        /\ req[r].io \notin {"none", "ok"}
              => (req[r].pc = "raised" /\ req[r].result = NoResult)
        /\ req[r].pc = "returned"
              => (/\ req[r].io = "ok"
                  /\ req[r].result.file_path \in StagedPaths
                  /\ ParentOf(req[r].result.file_path) = RootPath)

\* one call failed with an I/O error, another returned a ProcessedImage
C7_Witness ==
    \E r, q \in Calls :
        /\ req[r].pc = "raised"
        /\ req[r].io = "error"
        /\ req[r].result = NoResult
        /\ req[q].pc = "returned"

(***************************************************************************)
(* C8: the unlink step of cleanup_temp_file ends with True or False, never *)
(* with an exception; when the file is not there any more it ends with     *)
(* False; and whenever it ends with False a warning is logged and no file  *)
(* is changed.                                                             *)
(***************************************************************************)
C8_CleanupNeverRaises ==
    [][\A c \in Calls :
          (cln[c].pc = "checked" /\ cln'[c].pc = "done") =>
              /\ cln'[c].res \in {"true", "false"}
              /\ ~IsFile(ParsePath(cln[c].path), dirs, files) => cln'[c].res = "false"
              /\ cln'[c].res = "false" => (cln'[c].log = "warning" /\ files' = files)]_vars

\* an unlink failed although the path had passed the test: the call
\* returned False after logging the warning
C8_Witness ==
    \E c \in Calls :
        /\ cln[c].pc = "done"
        /\ cln[c].path = LeftoverPath
        /\ cln[c].res = "false"
        /\ cln[c].log = "warning"

(***************************************************************************)
(* C9: when process_image returns, the file at the returned path holds     *)
(* exactly the bytes of the buffer, and its extension is the format, or    *)
(* png for the unknown format.                                             *)
(***************************************************************************)
C9_StageRoundTrip ==
    [][\A r \in Calls :
          (req[r].pc = "downloading" /\ req'[r].pc = "returned") =>
              LET p == ParsePath(req'[r].result.file_path)
                  fmt == req'[r].result.metadata.format
              IN  /\ IsFile(p, dirs', files')
                  /\ files'[Resolve(p, dirs').at] = req'[r].buf
                  /\ p.segs[Len(p.segs)].ext = (CASE fmt = "unknown" -> "png"
                                                  [] OTHER -> fmt)]_vars

\* a buffer of unknown format was staged, as a .png file that holds it
C9_Witness ==
    \E r \in Calls :
        /\ req[r].pc = "returned"
        /\ req[r].result.metadata.format = "unknown"
        /\ req[r].result.file_path.segs[4].ext = "png"
        /\ IsFile(ParsePath(req[r].result.file_path), dirs, files)
        /\ files[req[r].result.file_path.segs] = req[r].buf

(***************************************************************************)
(* C10: _detect_format answers, for every buffer, by the first signature   *)
(* that matches: 89 50 4E 47 png, FF D8 FF jpeg, GIF87a or GIF89a gif,     *)
(* RIFF with WEBP inside the first 12 bytes webp, else unknown; and every  *)
(* buffer with the same first 12 bytes gets the same answer.               *)
(***************************************************************************)
C10_SniffFirstMatch ==
    sfmt # "pending" =>
        /\ sfmt \in Formats
        /\ HasSignature(sbuf, SigPNG) => sfmt = "png"
        /\ (~HasSignature(sbuf, SigPNG) /\ HasSignature(sbuf, SigJPEG)) => sfmt = "jpeg"
        /\ (/\ ~HasSignature(sbuf, SigPNG)
            /\ ~HasSignature(sbuf, SigJPEG)
            /\ (HasSignature(sbuf, SigGIF87a) \/ HasSignature(sbuf, SigGIF89a)))
              => sfmt = "gif"
        /\ (/\ ~HasSignature(sbuf, SigPNG)
            /\ ~HasSignature(sbuf, SigJPEG)
            /\ ~HasSignature(sbuf, SigGIF87a)
            /\ ~HasSignature(sbuf, SigGIF89a)
            /\ HasSignature(sbuf, SigRIFF)
            /\ WebpInFirst12(sbuf))
              => sfmt = "webp"
        /\ ~Recognised(sbuf) => sfmt = "unknown"
        /\ \A b \in SniffBuffers :
              Take(b.head, SniffLen) = Take(sbuf.head, SniffLen) => DetectFormat(b) = sfmt

\* a RIFF buffer whose WEBP marker starts at byte 10, beyond the window,
\* was sniffed as unknown
C10_Witness ==
    /\ sbuf.len > SniffLen
    /\ HasSignature(sbuf, SigRIFF)
    /\ SubSeq(sbuf.head, 10, 13) = SigWEBP
    /\ sfmt = "unknown"

(***************************************************************************)
(* C11: for every image type, caption and staged path, the prompt composed *)
(* is not empty and contains the string of the staged path; and when a     *)
(* caption is supplied (is not None), the prompt contains the text of the  *)
(* caption.  A string is seen as the sequence of its pieces, the empty     *)
(* string as the empty sequence, and containment is that of sequences.     *)
(***************************************************************************)
PiecesOf(text) == IF text = "" THEN <<>> ELSE <<Text(text)>>

C11_PromptHasPathAndCaption ==
    pdone =>
        /\ pprompt # <<>>
        /\ \E i \in 1..Len(pprompt) : pprompt[i].kind = "text" /\ pprompt[i].text # ""
        /\ Contains(pprompt, <<[kind |-> "path", text |-> "", path |-> StrPath(ppath)]>>)
        /\ pcap.some => Contains(pprompt, PiecesOf(pcap.text))

\* a prompt of the generic template was composed with a caption, and it
\* holds the staged path and the caption
C11_Witness ==
    /\ pdone
    /\ pcat = "generic"
    /\ pcap = SomeCaption("what is this")
    /\ Contains(pprompt, <<PathPiece(ppath)>>)
    /\ Contains(pprompt, <<Text("what is this")>>)

====
